---- MODULE Spec2Model ----
(***************************************************************************)
(* State-machine model of frontend/src/App.jsx (the first App component,   *)
(* lines 25-694): the lookup surface (handleFetch, mode toggle), the chat  *)
(* surface (handleChatSubmit) and the history feed (loadHistory and the    *)
(* phase3Open effect).                                                     *)
(*                                                                         *)
(* An async handler runs atomically up to its first await; everything      *)
(* after the awaited fetch()/res.json() runs atomically when the response  *)
(* arrives.  A handler invocation suspended at its await is an entry of    *)
(* fetchCalls / chatCalls / historyCalls and keeps the values its closure  *)
(* captured when it was called (mode, url).                                *)
(*                                                                         *)
(* JavaScript strings are sequences of symbols.  User input and server     *)
(* detail texts are spelled character by character; the fixed messages of  *)
(* the program are one symbol each.  '' is <<>>.  An optional value        *)
(* (undefined or v) is <<>> or <<v>>.                                      *)
(***************************************************************************)
EXTENDS Integers, Sequences, FiniteSets, TLC

VARIABLES
    mode, inputValue, result, rawJson, loading, error,
    weatherHistory, cryptoHistory, fetchCalls,
    chatMessage, chatAnswer, chatLoading, chatError, chatCalls,
    phase3Open, historyItems, historyLoading, historyError, historyCalls

lookupVars == <<mode, inputValue, result, rawJson, loading, error,
                weatherHistory, cryptoHistory, fetchCalls>>
chatVars == <<chatMessage, chatAnswer, chatLoading, chatError, chatCalls>>
feedVars == <<phase3Open, historyItems, historyLoading, historyError, historyCalls>>
vars == <<lookupVars, chatVars, feedVars>>

----------------------------------------------------------------------------
(* Bounds *)

MaxInFlight == 2
MaxPoints == 2

----------------------------------------------------------------------------
(* Strings *)

IsSpace(c) == c = " "

RECURSIVE TrimStart(_)
TrimStart(s) ==
    IF s # <<>> /\ IsSpace(Head(s)) THEN TrimStart(Tail(s)) ELSE s

RECURSIVE TrimEnd(_)
TrimEnd(s) ==
    IF s # <<>> /\ IsSpace(s[Len(s)]) THEN TrimEnd(SubSeq(s, 1, Len(s) - 1)) ELSE s

Trim(s) == TrimEnd(TrimStart(s))

LowerChar(c) ==
    CASE c = "A" -> "a"
      [] c = "B" -> "b"
      [] c = "D" -> "d"
      [] c = "E" -> "e"
      [] c = "I" -> "i"
      [] c = "L" -> "l"
      [] c = "M" -> "m"
      [] c = "R" -> "r"
      [] c = "T" -> "t"
      [] OTHER -> c

ToLowerCase(s) == [i \in 1..Len(s) |-> LowerChar(s[i])]

Includes(s, needle) ==
    \E k \in 0..(Len(s) - Len(needle)) :
        SubSeq(s, k + 1, k + Len(needle)) = needle

RateLimited == <<"r", "a", "t", "e", "-", "l", "i", "m", "i", "t", "e", "d">>

\* a || b on strings: '' and undefined are falsy
OrElse(opt, dflt) == IF opt = <<>> \/ opt[1] = <<>> THEN dflt ELSE opt[1]

\* a ?? b
Coalesce(opt, dflt) == IF opt = <<>> THEN dflt ELSE opt[1]

\* obj.f, undefined when the object has no such property
Get(obj, f) == IF f \in DOMAIN obj THEN <<obj[f]>> ELSE <<>>

\* The value of a JSON property the program uses as a number carries its
\* JSON type: the server may send a number or a string there
Num(n) == [number |-> n]
Str(text) == [string |-> text]
\* typeof v === 'number'
IsNumber(v) == DOMAIN v = {"number"}

----------------------------------------------------------------------------
(* Messages of the program *)

MsgEnterCity == <<"Please enter a city.">>
MsgEnterCoin == <<"Please enter a coin id.">>
MsgRequestFailed == <<"Request failed.">>
MsgRateLimit == <<"Crypto data is temporarily unavailable because the provider rate limit was exceeded. Please try again in a few minutes.">>
MsgNetwork == <<"Network error. Is the backend running on http://localhost:8000?">>
MsgEnterQuestion == <<"Please enter a question for the agent.">>
MsgAgentFailed == <<"Agent request failed.">>
MsgAgentNetwork == <<"Network error calling agent. Is the backend running on http://localhost:8000?">>
MsgHistoryFailed == <<"Failed to load history.">>
MsgHistoryNetwork == <<"Network error loading history.">>

----------------------------------------------------------------------------
(* What the user can type and what the server can answer *)

InputChoices == {<<" ">>, <<" ", "B", " ">>}

Names == {<<"b">>, <<"B">>}
TimeLabels == {"09:00", "09:01"}
RawPayload == [provider |-> "upstream"]

DetailTexts ==
    { <<>>,
      <<"R", "a", "t", "e", " ", "l", "i", "m", "i", "t", "e", "d">>,
      <<"r", "a", "t", "e", "-", "l", "i", "m", "i", "t", "e", "d">>,
      <<"x", " ", "R", "a", "t", "e", "-", "L", "I", "M", "I", "T", "E", "D", " ", "y">> }

ErrorBodies == {[status |-> "error"]} \cup [status : {"error"}, detail : DetailTexts]

WeatherBodies ==
    { [city |-> <<"B">>, temperature_c |-> Num(10), raw |-> RawPayload],
      [city |-> <<"b">>, temperature_c |-> Num(20)] }

CryptoBodies ==
    { [coin_id |-> <<"b">>, price_usd |-> Num(10), raw |-> RawPayload],
      [coin_id |-> <<"B">>, price_usd |-> Num(20)] }

\* 2xx bodies whose temperature_c / price_usd is missing, or is a string
InvalidWeatherBodies ==
    { [city |-> <<"B">>],
      [city |-> <<"B">>, temperature_c |-> Str(<<"w", "a", "r", "m">>)] }

InvalidCryptoBodies ==
    { [coin_id |-> <<"b">>],
      [coin_id |-> <<"b">>, price_usd |-> Str(<<"n", "/", "a">>)] }

\* fetch() rejected: no response at all
NoResponse == [net |-> "failed"]
\* a response whose body res.json() cannot parse
Unparsable(ok) == [net |-> "response", ok |-> ok, json |-> "unparsable"]
\* a response whose body is the JSON value null
JsonNull(ok) == [net |-> "response", ok |-> ok, json |-> "null"]
JsonObject(ok, data) == [net |-> "response", ok |-> ok, json |-> "object", data |-> data]

Failures ==
    {NoResponse} \cup {Unparsable(ok) : ok \in BOOLEAN} \cup {JsonNull(ok) : ok \in BOOLEAN}

\* every way a lookup can fail
ErrorResponses == Failures \cup {JsonObject(FALSE, d) : d \in ErrorBodies}

\* one failure of each class
ErrorSample == {NoResponse, JsonNull(TRUE), JsonObject(FALSE, [status |-> "error"])}

WeatherReadings == {JsonObject(TRUE, d) : d \in WeatherBodies}
CryptoReadings == {JsonObject(TRUE, d) : d \in CryptoBodies}

\* the 2xx answers of the endpoint `call` asked
Readings(call) == IF call.endpoint = "/weather" THEN WeatherReadings ELSE CryptoReadings

\* one 2xx answer of the endpoint `call` asked
ReadingSample(call) ==
    IF call.endpoint = "/weather"
    THEN JsonObject(TRUE, [city |-> <<"B">>, temperature_c |-> Num(10)])
    ELSE JsonObject(TRUE, [coin_id |-> <<"b">>, price_usd |-> Num(10)])

\* the 2xx answers of the endpoint `call` asked that lack a usable number
InvalidReadings(call) ==
    IF call.endpoint = "/weather"
    THEN {JsonObject(TRUE, d) : d \in InvalidWeatherBodies}
    ELSE {JsonObject(TRUE, d) : d \in InvalidCryptoBodies}

\* the handler reaches the statement after `const data = await res.json()`
Parsed(resp) == resp.net = "response" /\ resp.json # "unparsable"
\* property access on data does not throw
IsObject(resp) == resp.net = "response" /\ resp.json = "object"

\* handler invocations suspended at an await, over the three surfaces
InFlight == Len(fetchCalls) + Len(chatCalls) + Len(historyCalls)

Remove(s, i) == SubSeq(s, 1, i - 1) \o SubSeq(s, i + 1, Len(s))

----------------------------------------------------------------------------
(* Lookup surface *)

setInputValue(v) ==
    /\ inputValue' = v
    /\ UNCHANGED <<mode, result, rawJson, loading, error,
                   weatherHistory, cryptoHistory, fetchCalls>>
    /\ UNCHANGED <<chatVars, feedVars>>

\* onClick of the Weather / Crypto toggle buttons
setModeClick_ResetsHistory(m) ==
    /\ mode' = m
    /\ result' = <<>>
    /\ rawJson' = <<>>
    /\ error' = <<>>
    /\ weatherHistory' = <<>>
    /\ cryptoHistory' = <<>>
    /\ UNCHANGED <<inputValue, loading, fetchCalls>>
    /\ UNCHANGED <<chatVars, feedVars>>

setModeClick(m) ==
    /\ mode' = m
    /\ result' = <<>>
    /\ rawJson' = <<>>
    /\ error' = <<>>
    /\ UNCHANGED <<inputValue, loading, weatherHistory, cryptoHistory, fetchCalls>>
    /\ UNCHANGED <<chatVars, feedVars>>

\* the request handleFetch builds: endpoint and query parameter
Url_LowerCasesBoth(m, trimmed) ==
    IF m = "weather"
    THEN [endpoint |-> "/weather", param |-> ToLowerCase(trimmed)]
    ELSE [endpoint |-> "/crypto", param |-> ToLowerCase(trimmed)]

Url(m, trimmed) ==
    IF m = "weather"
    THEN [endpoint |-> "/weather", param |-> trimmed]
    ELSE [endpoint |-> "/crypto", param |-> ToLowerCase(trimmed)]

\* const trimmed = (valueOverride ?? inputValue).trim()
Trimmed_NoTrim(valueOverride) == Coalesce(valueOverride, inputValue)

Trimmed(valueOverride) == Trim(Coalesce(valueOverride, inputValue))

ValidationMessage(m) == IF m = "weather" THEN MsgEnterCity ELSE MsgEnterCoin

\* handleFetch up to `await fetch(url)`
handleFetch(valueOverride) ==
    LET trimmed == Trimmed(valueOverride) IN
    /\ result' = <<>>
    /\ rawJson' = <<>>
    /\ IF trimmed = <<>>
       THEN /\ error' = ValidationMessage(mode)
            /\ UNCHANGED <<loading, fetchCalls>>
       ELSE /\ InFlight < MaxInFlight
            /\ error' = <<>>
            /\ loading' = TRUE
            /\ fetchCalls' = Append(fetchCalls, [mode |-> mode] @@ Url(mode, trimmed))
    /\ UNCHANGED <<mode, inputValue, weatherHistory, cryptoHistory>>
    /\ UNCHANGED <<chatVars, feedVars>>

\* the Get Info button, disabled while loading
ClickGetInfo == ~loading /\ handleFetch(<<>>)

\* Enter in the input field
PressEnterInput == handleFetch(<<>>)

\* the message of the !res.ok branch
ErrorMessage_CaseSensitive(data) ==
    LET msg == OrElse(Get(data, "detail"), MsgRequestFailed) IN
    IF Includes(msg, RateLimited) THEN MsgRateLimit ELSE msg

ErrorMessage_IgnoresDetail(data) ==
    LET msg == OrElse(Get(data, "detail"), MsgRequestFailed) IN
    IF Includes(ToLowerCase(msg), RateLimited) THEN MsgRateLimit ELSE MsgRequestFailed

ErrorMessage(data) ==
    LET msg == OrElse(Get(data, "detail"), MsgRequestFailed) IN
    IF Includes(ToLowerCase(msg), RateLimited) THEN MsgRateLimit ELSE msg

\* the history point the invocation `call` records for the response `data`
HistoryPoint_KeyedByInput(call, data, timeLabel) ==
    IF call.mode = "weather"
    THEN [city |-> <<call.param>>,
          timeLabel |-> timeLabel,
          temperature |-> Get(data, "temperature_c")]
    ELSE [coin |-> <<call.param>>,
          timeLabel |-> timeLabel,
          price |-> Get(data, "price_usd")]

HistoryPoint(call, data, timeLabel) ==
    IF call.mode = "weather"
    THEN [city |-> Get(data, "city"),
          timeLabel |-> timeLabel,
          temperature |-> Get(data, "temperature_c")]
    ELSE [coin |-> Get(data, "coin_id"),
          timeLabel |-> timeLabel,
          price |-> Get(data, "price_usd")]

\* the catch block of handleFetch
FetchCatch_Silent == UNCHANGED error

FetchCatch == error' = MsgNetwork

\* handleFetch from the resolution of `await fetch(url)` to its end; the
\* invocation is fetchCalls[i], resp is what the network delivers and
\* timeLabel what the clock reads
FetchSettles_OnePointPerEntity(i, resp, timeLabel) ==
    LET call == fetchCalls[i]
        data == resp.data
    IN
    /\ fetchCalls' = Remove(fetchCalls, i)
    /\ loading' = FALSE
    /\ IF ~Parsed(resp)
       THEN \* fetch or res.json() rejected
            /\ FetchCatch
            /\ UNCHANGED <<result, rawJson, weatherHistory, cryptoHistory>>
       ELSE IF ~resp.ok
       THEN IF ~IsObject(resp)
            THEN \* data.detail throws
                 /\ FetchCatch
                 /\ UNCHANGED <<result, rawJson, weatherHistory, cryptoHistory>>
            ELSE /\ error' = ErrorMessage(data)
                 /\ UNCHANGED <<result, rawJson, weatherHistory, cryptoHistory>>
       ELSE IF ~IsObject(resp)
            THEN \* setResult(null), then data.raw throws
                 /\ result' = <<>>
                 /\ FetchCatch
                 /\ UNCHANGED <<rawJson, weatherHistory, cryptoHistory>>
            ELSE /\ Len(weatherHistory) + Len(cryptoHistory) < MaxPoints
                 /\ result' = <<data>>
                 \* data.raw || data: an object is truthy
                 /\ rawJson' = <<Coalesce(Get(data, "raw"), data)>>
                 /\ IF call.mode = "weather"
                    THEN /\ weatherHistory' =
                               Append(SelectSeq(weatherHistory,
                                                LAMBDA h : h.city # Get(data, "city")),
                                      HistoryPoint(call, data, timeLabel))
                         /\ UNCHANGED cryptoHistory
                    ELSE /\ cryptoHistory' =
                               Append(SelectSeq(cryptoHistory,
                                                LAMBDA h : h.coin # Get(data, "coin_id")),
                                      HistoryPoint(call, data, timeLabel))
                         /\ UNCHANGED weatherHistory
                 /\ UNCHANGED error
    /\ UNCHANGED <<mode, inputValue>>
    /\ UNCHANGED <<chatVars, feedVars>>

\* a handler that calls fetch(url) again when the call could not complete
FetchSettles_RetriesOnFailure(i, resp, timeLabel) ==
    LET call == fetchCalls[i]
        data == resp.data
    IN
    /\ fetchCalls' = IF resp.net = "failed"
                     THEN Append(Remove(fetchCalls, i), call)
                     ELSE Remove(fetchCalls, i)
    /\ loading' = FALSE
    /\ IF ~Parsed(resp)
       THEN \* fetch or res.json() rejected
            /\ FetchCatch
            /\ UNCHANGED <<result, rawJson, weatherHistory, cryptoHistory>>
       ELSE IF ~resp.ok
       THEN IF ~IsObject(resp)
            THEN \* data.detail throws
                 /\ FetchCatch
                 /\ UNCHANGED <<result, rawJson, weatherHistory, cryptoHistory>>
            ELSE /\ error' = ErrorMessage(data)
                 /\ UNCHANGED <<result, rawJson, weatherHistory, cryptoHistory>>
       ELSE IF ~IsObject(resp)
            THEN \* setResult(null), then data.raw throws
                 /\ result' = <<>>
                 /\ FetchCatch
                 /\ UNCHANGED <<rawJson, weatherHistory, cryptoHistory>>
            ELSE /\ Len(weatherHistory) + Len(cryptoHistory) < MaxPoints
                 /\ result' = <<data>>
                 \* data.raw || data: an object is truthy
                 /\ rawJson' = <<Coalesce(Get(data, "raw"), data)>>
                 /\ IF call.mode = "weather"
                    THEN /\ weatherHistory' =
                               Append(weatherHistory, HistoryPoint(call, data, timeLabel))
                         /\ UNCHANGED cryptoHistory
                    ELSE /\ cryptoHistory' =
                               Append(cryptoHistory, HistoryPoint(call, data, timeLabel))
                         /\ UNCHANGED weatherHistory
                 /\ UNCHANGED error
    /\ UNCHANGED <<mode, inputValue>>
    /\ UNCHANGED <<chatVars, feedVars>>

\* setWeatherHistory((prev) => [...prev, point]): the point goes after all
\* the points the store holds
FetchSettles(i, resp, timeLabel) ==
    LET call == fetchCalls[i]
        data == resp.data
    IN
    /\ fetchCalls' = Remove(fetchCalls, i)
    /\ loading' = FALSE
    /\ IF ~Parsed(resp)
       THEN \* fetch or res.json() rejected
            /\ FetchCatch
            /\ UNCHANGED <<result, rawJson, weatherHistory, cryptoHistory>>
       ELSE IF ~resp.ok
       THEN IF ~IsObject(resp)
            THEN \* data.detail throws
                 /\ FetchCatch
                 /\ UNCHANGED <<result, rawJson, weatherHistory, cryptoHistory>>
            ELSE /\ error' = ErrorMessage(data)
                 /\ UNCHANGED <<result, rawJson, weatherHistory, cryptoHistory>>
       ELSE IF ~IsObject(resp)
            THEN \* setResult(null), then data.raw throws
                 /\ result' = <<>>
                 /\ FetchCatch
                 /\ UNCHANGED <<rawJson, weatherHistory, cryptoHistory>>
            ELSE /\ Len(weatherHistory) + Len(cryptoHistory) < MaxPoints
                 /\ result' = <<data>>
                 \* data.raw || data: an object is truthy
                 /\ rawJson' = <<Coalesce(Get(data, "raw"), data)>>
                 /\ IF call.mode = "weather"
                    THEN /\ weatherHistory' =
                               Append(weatherHistory, HistoryPoint(call, data, timeLabel))
                         /\ UNCHANGED cryptoHistory
                    ELSE /\ cryptoHistory' =
                               Append(cryptoHistory, HistoryPoint(call, data, timeLabel))
                         /\ UNCHANGED weatherHistory
                 /\ UNCHANGED error
    /\ UNCHANGED <<mode, inputValue>>
    /\ UNCHANGED <<chatVars, feedVars>>

\* Chart Projection: <<>> is null, otherwise <<[labels, data]>>
buildChartData_IgnoresCase ==
    IF mode = "weather"
    THEN IF result = <<>> THEN <<>>
         ELSE LET historyForCity ==
                      SelectSeq(weatherHistory,
                                LAMBDA h : h.city # <<>> /\ Get(result[1], "city") # <<>>
                                           /\ ToLowerCase(h.city[1])
                                                = ToLowerCase(Get(result[1], "city")[1]))
              IN IF Len(historyForCity) = 0 THEN <<>>
                 ELSE <<[labels |-> [k \in 1..Len(historyForCity) |->
                                        historyForCity[k].timeLabel],
                         data |-> [k \in 1..Len(historyForCity) |->
                                        historyForCity[k].temperature]]>>
    ELSE IF mode = "crypto"
    THEN IF result = <<>> THEN <<>>
         ELSE LET historyForCoin ==
                      SelectSeq(cryptoHistory,
                                LAMBDA h : h.coin # <<>> /\ Get(result[1], "coin_id") # <<>>
                                           /\ ToLowerCase(h.coin[1])
                                                = ToLowerCase(Get(result[1], "coin_id")[1]))
              IN IF Len(historyForCoin) = 0 THEN <<>>
                 ELSE <<[labels |-> [k \in 1..Len(historyForCoin) |->
                                        historyForCoin[k].timeLabel],
                         data |-> [k \in 1..Len(historyForCoin) |->
                                        historyForCoin[k].price]]>>
    ELSE <<>>

buildChartData_NeedsTwo ==
    IF mode = "weather"
    THEN IF result = <<>> THEN <<>>
         ELSE LET historyForCity ==
                      SelectSeq(weatherHistory,
                                LAMBDA h : h.city = Get(result[1], "city"))
              IN IF Len(historyForCity) <= 1 THEN <<>>
                 ELSE <<[labels |-> [k \in 1..Len(historyForCity) |->
                                        historyForCity[k].timeLabel],
                         data |-> [k \in 1..Len(historyForCity) |->
                                        historyForCity[k].temperature]]>>
    ELSE IF mode = "crypto"
    THEN IF result = <<>> THEN <<>>
         ELSE LET historyForCoin ==
                      SelectSeq(cryptoHistory,
                                LAMBDA h : h.coin = Get(result[1], "coin_id"))
              IN IF Len(historyForCoin) <= 1 THEN <<>>
                 ELSE <<[labels |-> [k \in 1..Len(historyForCoin) |->
                                        historyForCoin[k].timeLabel],
                         data |-> [k \in 1..Len(historyForCoin) |->
                                        historyForCoin[k].price]]>>
    ELSE <<>>


buildChartData ==
    IF mode = "weather"
    THEN IF result = <<>> THEN <<>>
         ELSE LET historyForCity ==
                      SelectSeq(weatherHistory,
                                LAMBDA h : h.city = Get(result[1], "city"))
              IN IF Len(historyForCity) = 0 THEN <<>>
                 ELSE <<[labels |-> [k \in 1..Len(historyForCity) |->
                                        historyForCity[k].timeLabel],
                         data |-> [k \in 1..Len(historyForCity) |->
                                        historyForCity[k].temperature]]>>
    ELSE IF mode = "crypto"
    THEN IF result = <<>> THEN <<>>
         ELSE LET historyForCoin ==
                      SelectSeq(cryptoHistory,
                                LAMBDA h : h.coin = Get(result[1], "coin_id"))
              IN IF Len(historyForCoin) = 0 THEN <<>>
                 ELSE <<[labels |-> [k \in 1..Len(historyForCoin) |->
                                        historyForCoin[k].timeLabel],
                         data |-> [k \in 1..Len(historyForCoin) |->
                                        historyForCoin[k].price]]>>
    ELSE <<>>

----------------------------------------------------------------------------
(* Chat surface *)

ChatChoices == {<<>>, <<" ">>, <<" ", "q", " ">>}
Answers == {<<>>, <<"It is sunny.">>}

ChatResponses ==
    Failures
        \cup {JsonObject(FALSE, d) : d \in ErrorBodies}
        \cup {JsonObject(TRUE, d) : d \in {[status |-> "ok"]} \cup [answer : Answers]}

\* onChange of the textarea
setChatMessage(v) ==
    /\ chatMessage' = v
    /\ chatError' = <<>>
    /\ chatAnswer' = <<>>
    /\ UNCHANGED <<chatLoading, chatCalls>>
    /\ UNCHANGED <<lookupVars, feedVars>>

\* handleChatSubmit up to `await fetch(...)`
handleChatSubmit_ClearsLookupError ==
    LET trimmed == Trim(chatMessage) IN
    /\ chatAnswer' = <<>>
    /\ IF trimmed = <<>>
       THEN /\ chatError' = MsgEnterQuestion
            /\ UNCHANGED <<chatLoading, chatCalls, error>>
       ELSE /\ InFlight < MaxInFlight
            /\ error' = <<>>
            /\ chatLoading' = TRUE
            /\ chatCalls' = Append(chatCalls,
                    [endpoint |-> "/agent/chat", body |-> [message |-> trimmed]])
            /\ UNCHANGED chatError
    /\ UNCHANGED chatMessage
    /\ UNCHANGED <<mode, inputValue, result, rawJson, loading,
                   weatherHistory, cryptoHistory, fetchCalls>>
    /\ UNCHANGED feedVars

\* a handler that posts the message as typed
handleChatSubmit_SendsRaw ==
    LET trimmed == Trim(chatMessage) IN
    /\ chatAnswer' = <<>>
    /\ IF trimmed = <<>>
       THEN /\ chatError' = MsgEnterQuestion
            /\ UNCHANGED <<chatLoading, chatCalls>>
       ELSE /\ InFlight < MaxInFlight
            /\ chatError' = <<>>
            /\ chatLoading' = TRUE
            /\ chatCalls' = Append(chatCalls,
                    [endpoint |-> "/agent/chat", body |-> [message |-> chatMessage]])
    /\ UNCHANGED chatMessage
    /\ UNCHANGED <<lookupVars, feedVars>>

handleChatSubmit ==
    LET trimmed == Trim(chatMessage) IN
    /\ chatAnswer' = <<>>
    /\ IF trimmed = <<>>
       THEN /\ chatError' = MsgEnterQuestion
            /\ UNCHANGED <<chatLoading, chatCalls>>
       ELSE /\ InFlight < MaxInFlight
            /\ chatError' = <<>>
            /\ chatLoading' = TRUE
            /\ chatCalls' = Append(chatCalls,
                    [endpoint |-> "/agent/chat", body |-> [message |-> trimmed]])
    /\ UNCHANGED chatMessage
    /\ UNCHANGED <<lookupVars, feedVars>>

\* the Ask Agent button, disabled while chatLoading
ClickAskAgent_OneBusyFlag == ~chatLoading /\ ~loading /\ handleChatSubmit

ClickAskAgent == ~chatLoading /\ handleChatSubmit

\* Enter without Shift in the textarea
PressEnterChat == handleChatSubmit

\* handleChatSubmit from the resolution of `await fetch(...)` to its end
ChatSettles_NoFinally(i, resp) ==
    LET data == resp.data IN
    /\ chatCalls' = Remove(chatCalls, i)
    /\ IF ~Parsed(resp) \/ ~IsObject(resp)
       THEN \* setChatLoading(false) is skipped when the try block throws
            /\ chatError' = MsgAgentNetwork
            /\ UNCHANGED <<chatAnswer, chatLoading>>
       ELSE IF ~resp.ok
       THEN /\ chatLoading' = FALSE
            /\ chatError' = OrElse(Get(data, "detail"), MsgAgentFailed)
            /\ UNCHANGED chatAnswer
       ELSE /\ chatLoading' = FALSE
            /\ chatAnswer' = OrElse(Get(data, "answer"), <<>>)
            /\ UNCHANGED chatError
    /\ UNCHANGED chatMessage
    /\ UNCHANGED <<lookupVars, feedVars>>

ChatSettles(i, resp) ==
    LET data == resp.data IN
    /\ chatCalls' = Remove(chatCalls, i)
    /\ chatLoading' = FALSE
    /\ IF ~Parsed(resp) \/ ~IsObject(resp)
       THEN \* fetch or res.json() rejected, or data.detail / data.answer throws
            /\ chatError' = MsgAgentNetwork
            /\ UNCHANGED chatAnswer
       ELSE IF ~resp.ok
       THEN /\ chatError' = OrElse(Get(data, "detail"), MsgAgentFailed)
            /\ UNCHANGED chatAnswer
       ELSE /\ chatAnswer' = OrElse(Get(data, "answer"), <<>>)
            /\ UNCHANGED chatError
    /\ UNCHANGED chatMessage
    /\ UNCHANGED <<lookupVars, feedVars>>

----------------------------------------------------------------------------
(* History feed *)

HistoryLimit == 20

FeedItem(k) == [kind |-> "agent", query |-> k]
Feeds == {<<>>, <<FeedItem(1)>>, <<FeedItem(2), FeedItem(1)>>}

\* GET /history answers 2xx with an array
FeedResponses ==
    {NoResponse, Unparsable(TRUE), Unparsable(FALSE), JsonNull(FALSE)}
        \cup {JsonObject(FALSE, d) : d \in ErrorBodies}
        \cup {JsonObject(TRUE, d) : d \in Feeds}

\* loadHistory up to `await fetch(...)`
loadHistory ==
    /\ InFlight < MaxInFlight
    /\ historyLoading' = TRUE
    /\ historyError' = <<>>
    /\ historyCalls' = Append(historyCalls,
            [endpoint |-> "/history", limit |-> HistoryLimit])
    /\ UNCHANGED historyItems

\* onClick of the phase3 toggle, and the effect on [phase3Open] that follows
\* the render
togglePhase3_LoadsOnce ==
    /\ phase3Open' = ~phase3Open
    /\ IF phase3Open' /\ historyItems = <<>>
       THEN loadHistory
       ELSE UNCHANGED <<historyItems, historyLoading, historyError, historyCalls>>
    /\ UNCHANGED <<lookupVars, chatVars>>

togglePhase3 ==
    /\ phase3Open' = ~phase3Open
    /\ IF phase3Open'
       THEN loadHistory
       ELSE UNCHANGED <<historyItems, historyLoading, historyError, historyCalls>>
    /\ UNCHANGED <<lookupVars, chatVars>>

\* loadHistory from the resolution of `await fetch(...)` to its end
HistorySettles_Merges(i, resp) ==
    LET data == resp.data IN
    /\ historyCalls' = Remove(historyCalls, i)
    /\ historyLoading' = FALSE
    /\ IF ~Parsed(resp) \/ ~IsObject(resp)
       THEN /\ historyError' = MsgHistoryNetwork
            /\ historyItems' = <<>>
       ELSE IF ~resp.ok
       THEN /\ historyError' = OrElse(Get(data, "detail"), MsgHistoryFailed)
            /\ historyItems' = <<>>
       ELSE /\ historyItems' = historyItems \o data
            /\ UNCHANGED historyError
    /\ UNCHANGED phase3Open
    /\ UNCHANGED <<lookupVars, chatVars>>

HistorySettles(i, resp) ==
    LET data == resp.data IN
    /\ historyCalls' = Remove(historyCalls, i)
    /\ historyLoading' = FALSE
    /\ IF ~Parsed(resp) \/ ~IsObject(resp)
       THEN /\ historyError' = MsgHistoryNetwork
            /\ historyItems' = <<>>
       ELSE IF ~resp.ok
       THEN /\ historyError' = OrElse(Get(data, "detail"), MsgHistoryFailed)
            /\ historyItems' = <<>>
       ELSE /\ historyItems' = data
            /\ UNCHANGED historyError
    /\ UNCHANGED phase3Open
    /\ UNCHANGED <<lookupVars, chatVars>>

----------------------------------------------------------------------------
(* Specifications *)

Modes == {"weather", "crypto"}

Init ==
    /\ mode = "weather"
    /\ inputValue = <<>>
    /\ result = <<>>
    /\ rawJson = <<>>
    /\ loading = FALSE
    /\ error = <<>>
    /\ weatherHistory = <<>>
    /\ cryptoHistory = <<>>
    /\ fetchCalls = <<>>
    /\ chatMessage = <<>>
    /\ chatAnswer = <<>>
    /\ chatLoading = FALSE
    /\ chatError = <<>>
    /\ chatCalls = <<>>
    /\ phase3Open = FALSE
    /\ historyItems = <<>>
    /\ historyLoading = FALSE
    /\ historyError = <<>>
    /\ historyCalls = <<>>

LookupUser ==
    \/ \E v \in InputChoices : setInputValue(v)
    \/ \E m \in Modes : setModeClick(m)
    \/ ClickGetInfo
    \/ PressEnterInput

\* every kind of reading, at either time, and one failure of each class
LookupNext ==
    \/ LookupUser
    \/ \E i \in 1..Len(fetchCalls) :
          \/ \E resp \in Readings(fetchCalls[i]) :
                \E timeLabel \in TimeLabels : FetchSettles(i, resp, timeLabel)
          \/ \E resp \in ErrorSample : FetchSettles(i, resp, "09:00")

\* every kind of failure, and one reading
ErrorNext ==
    \/ LookupUser
    \/ \E i \in 1..Len(fetchCalls) :
          \E resp \in ErrorResponses \cup {ReadingSample(fetchCalls[i])} :
             FetchSettles(i, resp, "09:00")

ChatNext ==
    \/ \E v \in ChatChoices : setChatMessage(v)
    \/ ClickAskAgent
    \/ PressEnterChat
    \/ \E i \in 1..Len(chatCalls) :
          \E resp \in ChatResponses : ChatSettles(i, resp)

FeedNext ==
    \/ togglePhase3
    \/ \E i \in 1..Len(historyCalls) :
          \E resp \in FeedResponses : HistorySettles(i, resp)

\* One sample of each kind of answer, for the runs in which all three
\* surfaces act together
LookupSample(call) ==
    {NoResponse, Unparsable(TRUE), JsonObject(FALSE, [status |-> "error"]),
     ReadingSample(call)}

ChatSample ==
    {NoResponse, Unparsable(FALSE), JsonObject(FALSE, [status |-> "error"]),
     JsonObject(TRUE, [answer |-> <<"It is sunny.">>])}

FeedSample ==
    {NoResponse, Unparsable(TRUE), JsonObject(FALSE, [status |-> "error"]),
     JsonObject(TRUE, <<FeedItem(1)>>)}

Next ==
    \/ setInputValue(<<" ", "B", " ">>)
    \/ \E m \in Modes : setModeClick(m)
    \/ ClickGetInfo
    \/ PressEnterInput
    \/ \E i \in 1..Len(fetchCalls) :
          \E resp \in LookupSample(fetchCalls[i]) : FetchSettles(i, resp, "09:00")
    \/ setChatMessage(<<" ", "q", " ">>)
    \/ ClickAskAgent
    \/ PressEnterChat
    \/ \E i \in 1..Len(chatCalls) :
          \E resp \in ChatSample : ChatSettles(i, resp)
    \/ togglePhase3
    \/ \E i \in 1..Len(historyCalls) :
          \E resp \in FeedSample : HistorySettles(i, resp)

\* the lookup and the chat surface, one sample of each kind of answer
PairNext ==
    \/ setInputValue(<<" ", "B", " ">>)
    \/ \E m \in Modes : setModeClick(m)
    \/ ClickGetInfo
    \/ PressEnterInput
    \/ \E i \in 1..Len(fetchCalls) :
          \E resp \in LookupSample(fetchCalls[i]) : FetchSettles(i, resp, "09:00")
    \/ setChatMessage(<<" ", "q", " ">>)
    \/ ClickAskAgent
    \/ PressEnterChat
    \/ \E i \in 1..Len(chatCalls) :
          \E resp \in ChatSample : ChatSettles(i, resp)

\* one good reading, and the 2xx answers that lack a usable number
ReadingNext ==
    \/ LookupUser
    \/ \E i \in 1..Len(fetchCalls) :
          \E resp \in {ReadingSample(fetchCalls[i])} \cup InvalidReadings(fetchCalls[i]) :
             FetchSettles(i, resp, "09:00")

\* the three surfaces together
Spec == Init /\ [][Next]_vars
\* the lookup surface alone, with 2xx answers that lack a usable number
ReadingSpec == Init /\ [][ReadingNext]_vars
\* the lookup and the chat surface together
PairSpec == Init /\ [][PairNext]_vars

\* the network answers some lookup, chat or feed call in flight: it fails,
\* or it delivers the answer asked for
LookupResponds ==
    \E i \in 1..Len(fetchCalls) :
        \E resp \in {NoResponse, ReadingSample(fetchCalls[i])} :
            FetchSettles(i, resp, "09:00")
ChatResponds ==
    \E i \in 1..Len(chatCalls) :
        \E resp \in {NoResponse, JsonObject(TRUE, [answer |-> <<"It is sunny.">>])} :
            ChatSettles(i, resp)
FeedResponds ==
    \E i \in 1..Len(historyCalls) :
        \E resp \in {NoResponse, JsonObject(TRUE, <<FeedItem(1)>>)} :
            HistorySettles(i, resp)

FairNext ==
    \/ setInputValue(<<" ", "B", " ">>)
    \/ \E m \in Modes : setModeClick(m)
    \/ ClickGetInfo
    \/ PressEnterInput
    \/ LookupResponds
    \/ setChatMessage(<<" ", "q", " ">>)
    \/ ClickAskAgent
    \/ PressEnterChat
    \/ ChatResponds
    \/ togglePhase3
    \/ FeedResponds

\* the three surfaces together, when no call stays unanswered for ever:
\* fetch() resolves or rejects, and the continuation of the handler then runs
FairSpec ==
    /\ Init /\ [][FairNext]_vars
    /\ WF_vars(LookupResponds)
    /\ WF_vars(ChatResponds)
    /\ WF_vars(FeedResponds)
\* the lookup surface alone, with every kind of reading
LookupSpec == Init /\ [][LookupNext]_vars
\* the lookup surface alone, with every kind of failure
ErrorSpec == Init /\ [][ErrorNext]_vars
\* the chat surface and the history feed, with every kind of input and answer
PanelSpec == Init /\ [][ChatNext \/ FeedNext]_vars

----------------------------------------------------------------------------
(* Properties *)

\* a step of handleFetch, through either of its two call sites
Submits == ClickGetInfo \/ PressEnterInput

HistoryUnchanged == UNCHANGED <<weatherHistory, cryptoHistory>>

\* C1: a submission whose input is empty or only whitespace ends with the
\* validation message of the active mode in the error slot, issues no
\* request and does not set loading.
C1_EmptyInputRejected ==
    [][Submits /\ (inputValue = <<>> \/ \A k \in 1..Len(inputValue) : inputValue[k] = " ")
        => /\ error' = (IF mode = "weather" THEN <<"Please enter a city.">>
                                             ELSE <<"Please enter a coin id.">>)
           /\ fetchCalls' = fetchCalls
           /\ loading' = loading]_vars

C1_Witness ==
    /\ inputValue = <<" ">>
    /\ mode = "crypto"
    /\ error = <<"Please enter a coin id.">>
    /\ fetchCalls = <<>>
    /\ ~loading

\* C2: a lookup answered 2xx with a reading appends exactly one point to the
\* history of the endpoint it asked, keyed by the city / coin_id of the
\* response; every other answer, and a submission, leave both histories as
\* they were.
C2_OnePointKeyedByResponse ==
    [][/\ \A i \in 1..Len(fetchCalls) :
            \A resp \in Readings(fetchCalls[i]) \cup ErrorSample : \A t \in TimeLabels :
                FetchSettles(i, resp, t) =>
                    IF resp.net = "response" /\ resp.ok /\ resp.json = "object"
                    THEN IF fetchCalls[i].endpoint = "/weather"
                         THEN /\ Len(weatherHistory') = Len(weatherHistory) + 1
                              /\ SubSeq(weatherHistory', 1, Len(weatherHistory)) = weatherHistory
                              /\ weatherHistory'[Len(weatherHistory')].city = <<resp.data.city>>
                              /\ cryptoHistory' = cryptoHistory
                         ELSE /\ Len(cryptoHistory') = Len(cryptoHistory) + 1
                              /\ SubSeq(cryptoHistory', 1, Len(cryptoHistory)) = cryptoHistory
                              /\ cryptoHistory'[Len(cryptoHistory')].coin = <<resp.data.coin_id>>
                              /\ weatherHistory' = weatherHistory
                    ELSE HistoryUnchanged
       /\ Submits => HistoryUnchanged]_vars

\* the only city ever asked for is "B"; the point is keyed "b", as answered
C2_Witness ==
    /\ Len(weatherHistory) = 1
    /\ weatherHistory[1].city = <<<<"b">>>>
    /\ result # <<>>
    /\ result[1].city = <<"b">>
    /\ fetchCalls = <<>>

\* C3: at most one lookup request is in flight at any time.
C3_OneLookupInFlight == Len(fetchCalls) <= 1

\* C4: at most one chat request is in flight at any time.
C4_OneChatInFlight == Len(chatCalls) <= 1

\* C5: a click on a mode button empties result, rawJson and error and leaves
\* both session histories as they were.
C5_ModeSwitchKeepsHistory ==
    [][(mode' # mode \/ \E m \in Modes : setModeClick(m))
        => /\ result' = <<>>
           /\ rawJson' = <<>>
           /\ error' = <<>>
           /\ weatherHistory' = weatherHistory
           /\ cryptoHistory' = cryptoHistory]_vars

C5_Witness ==
    /\ mode = "crypto"
    /\ Len(weatherHistory) = MaxPoints
    /\ result = <<>>
    /\ rawJson = <<>>
    /\ error = <<>>
    /\ fetchCalls = <<>>

\* the detail texts that hold 'rate-limited' in some letter case
RateLimitDetails ==
    { <<"r", "a", "t", "e", "-", "l", "i", "m", "i", "t", "e", "d">>,
      <<"x", " ", "R", "a", "t", "e", "-", "L", "I", "M", "I", "T", "E", "D", " ", "y">> }

\* C6: a non-2xx answer whose detail holds 'rate-limited' in any letter case
\* puts the friendly message, never the detail, in the error slot, stores no
\* result and appends no point.
C6_RateLimitFriendly ==
    [][\A i \in 1..Len(fetchCalls) : \A d \in RateLimitDetails :
          FetchSettles(i, JsonObject(FALSE, [status |-> "error", detail |-> d]), "09:00")
            => /\ error' = MsgRateLimit
               /\ error' # d
               /\ result' = result
               /\ rawJson' = rawJson
               /\ HistoryUnchanged]_vars

C6_Witness ==
    /\ error = MsgRateLimit
    /\ result = <<>>
    /\ ~loading
    /\ weatherHistory = <<>>
    /\ cryptoHistory = <<>>

\* a non-2xx answer that is no rate-limit condition
NotRateLimit(resp) ==
    /\ resp.net = "response"
    /\ ~resp.ok
    /\ ~(resp.json = "object" /\ "detail" \in DOMAIN resp.data
            /\ resp.data.detail \in RateLimitDetails)

\* the detail of an answer, or 'Request failed.' when it carries none
DetailOrFallback(resp) ==
    IF resp.json = "object" /\ "detail" \in DOMAIN resp.data /\ resp.data.detail # <<>>
    THEN resp.data.detail
    ELSE <<"Request failed.">>

\* C7 as claimed: every non-2xx answer that is no rate-limit condition puts
\* its detail (or 'Request failed.') in the error slot, and the result slot
\* is empty afterwards and no point is appended.
C7_AsClaimed ==
    [][\A i \in 1..Len(fetchCalls) : \A resp \in ErrorResponses :
            FetchSettles(i, resp, "09:00") /\ NotRateLimit(resp)
              => /\ error' = DetailOrFallback(resp)
                 /\ result' = <<>>
                 /\ HistoryUnchanged]_vars

\* C7 (amended): a non-2xx answer whose body is a JSON object and that is no
\* rate-limit condition puts its detail, verbatim, in the error slot (or
\* 'Request failed.' when the detail is missing or empty); the step stores
\* no result and appends no point.
C7_ServerDetailVerbatim ==
    [][\A i \in 1..Len(fetchCalls) : \A resp \in ErrorResponses :
            FetchSettles(i, resp, "09:00") /\ NotRateLimit(resp) /\ resp.json = "object"
              => /\ error' = DetailOrFallback(resp)
                 /\ result' = result
                 /\ rawJson' = rawJson
                 /\ HistoryUnchanged]_vars

C7_Witness ==
    /\ error = <<"R", "a", "t", "e", " ", "l", "i", "m", "i", "t", "e", "d">>
    /\ result = <<>>
    /\ ~loading
    /\ weatherHistory = <<>>
    /\ cryptoHistory = <<>>

\* the call could not complete, or its body could not be parsed
Broken == {NoResponse, Unparsable(TRUE), Unparsable(FALSE)}

\* C8: when a lookup, chat or feed call gets no response or an unparsable
\* body, its handler still runs to its end: the surface's network message is
\* in its error slot, its pending flag is false, and no result, answer,
\* feed item or point comes from it.
C8_FailureLandsInErrorSlot ==
    [][\A resp \in Broken :
          /\ \A i \in 1..Len(fetchCalls) :
                FetchSettles(i, resp, "09:00")
                  => /\ error' = <<"Network error. Is the backend running on http://localhost:8000?">>
                     /\ ~loading'
                     /\ Len(fetchCalls') = Len(fetchCalls) - 1
                     /\ result' = result
                     /\ rawJson' = rawJson
                     /\ HistoryUnchanged
          /\ \A i \in 1..Len(chatCalls) :
                ChatSettles(i, resp)
                  => /\ chatError' = <<"Network error calling agent. Is the backend running on http://localhost:8000?">>
                     /\ ~chatLoading'
                     /\ Len(chatCalls') = Len(chatCalls) - 1
                     /\ chatAnswer' = chatAnswer
          /\ \A i \in 1..Len(historyCalls) :
                HistorySettles(i, resp)
                  => /\ historyError' = <<"Network error loading history.">>
                     /\ ~historyLoading'
                     /\ Len(historyCalls') = Len(historyCalls) - 1
                     /\ historyItems' = <<>>]_vars

\* all three surfaces have failed on the network
C8_Witness ==
    /\ error = MsgNetwork
    /\ chatError = MsgAgentNetwork
    /\ historyError = MsgHistoryNetwork
    /\ ~loading /\ ~chatLoading /\ ~historyLoading
    /\ InFlight = 0

LookupStep ==
    \/ Submits
    \/ \E m \in Modes : setModeClick(m)
    \/ setInputValue(<<" ", "B", " ">>)
    \/ \E i \in 1..Len(fetchCalls) : \E resp \in LookupSample(fetchCalls[i]) :
          FetchSettles(i, resp, "09:00")

ChatStep ==
    \/ setChatMessage(<<" ", "q", " ">>)
    \/ ClickAskAgent
    \/ PressEnterChat
    \/ \E i \in 1..Len(chatCalls) : \E resp \in ChatSample : ChatSettles(i, resp)

FeedStep ==
    \/ togglePhase3
    \/ \E i \in 1..Len(historyCalls) : \E resp \in FeedSample : HistorySettles(i, resp)

\* C9: a step of a lookup leaves the chat and feed slots as they were, a
\* step of a chat request leaves the lookup and feed slots as they were, and
\* a step of a feed load leaves the lookup and chat slots as they were.
C9_SurfacesAreSeparate ==
    [][/\ UNCHANGED <<chatAnswer, chatError, chatLoading,
                       historyItems, historyError, historyLoading>>
          \/ ~LookupStep
       /\ UNCHANGED <<result, rawJson, error, loading, weatherHistory, cryptoHistory,
                       historyItems, historyError, historyLoading>>
          \/ ~ChatStep
       /\ UNCHANGED <<result, rawJson, error, loading, weatherHistory, cryptoHistory,
                       chatAnswer, chatError, chatLoading>>
          \/ ~FeedStep]_vars

\* a lookup has failed, and the chat answer and the feed are still there
C9_Witness ==
    /\ error = MsgNetwork
    /\ chatAnswer # <<>>
    /\ historyItems # <<>>
    /\ InFlight = 0

\* the points of the active mode's history recorded for the entity of the
\* current result
PointsOfCurrentEntity ==
    IF mode = "weather"
    THEN {k \in 1..Len(weatherHistory) : weatherHistory[k].city = Get(result[1], "city")}
    ELSE {k \in 1..Len(cryptoHistory) : cryptoHistory[k].coin = Get(result[1], "coin_id")}

\* C10: the chart projection is null when there is no result or no point of
\* the current entity, it is a series of one label and one value when
\* there is exactly one such point, and it is not null right after a 2xx
\* reading arrives for a lookup submitted in the mode that is active.
C10_ChartNullOrSeries ==
    /\ [](result = <<>> => buildChartData = <<>>)
    /\ [](result # <<>> /\ PointsOfCurrentEntity = {} => buildChartData = <<>>)
    /\ [](result # <<>> /\ Cardinality(PointsOfCurrentEntity) = 1
            => /\ buildChartData # <<>>
               /\ Len(buildChartData[1].labels) = 1
               /\ Len(buildChartData[1].data) = 1)
    /\ [][\A i \in 1..Len(fetchCalls) : \A resp \in Readings(fetchCalls[i]) :
            \A t \in TimeLabels :
              (FetchSettles(i, resp, t) /\ fetchCalls[i].mode = mode)
                => buildChartData' # <<>>]_vars

\* the first reading for "B" has arrived and is charted as one point
C10_Witness ==
    /\ mode = "weather"
    /\ result # <<>>
    /\ Len(weatherHistory) = 1
    /\ buildChartData = <<[labels |-> <<"09:01">>, data |-> <<<<Num(10)>>>>]>>

\* the session history of the active mode
ActiveHistory == IF mode = "weather" THEN weatherHistory ELSE cryptoHistory

\* the position in the active history of the j-th point of the current entity
NthOfCurrentEntity(j) ==
    CHOOSE k \in PointsOfCurrentEntity :
        Cardinality({x \in PointsOfCurrentEntity : x <= k}) = j

\* C11: the series of the chart projection is the subsequence of the active
\* mode's history whose key equals, letter case included, the city / coin_id
\* of the current result: as many labels and values as there are such
\* points, the j-th label and the j-th value both taken from the j-th such
\* point in insertion order, and nothing from a point of another entity.
C11_SeriesIsEntitySubsequence ==
    (result # <<>> /\ buildChartData # <<>>) =>
        LET series == buildChartData[1]
            n == Cardinality(PointsOfCurrentEntity)
        IN
        /\ Len(series.labels) = n
        /\ Len(series.data) = n
        /\ \A j \in 1..n :
              LET h == ActiveHistory[NthOfCurrentEntity(j)] IN
              /\ series.labels[j] = h.timeLabel
              /\ series.data[j] = (IF mode = "weather" THEN h.temperature ELSE h.price)
              /\ (IF mode = "weather" THEN h.city ELSE h.coin)
                    = (IF mode = "weather" THEN <<result[1].city>> ELSE <<result[1].coin_id>>)

\* "B" was answered first and "b" second: the chart of "b" holds the second
\* point only
C11_Witness ==
    /\ mode = "weather"
    /\ Len(weatherHistory) = 2
    /\ weatherHistory[1].city = <<<<"B">>>>
    /\ weatherHistory[2].city = <<<<"b">>>>
    /\ result # <<>>
    /\ result[1].city = <<"b">>
    /\ buildChartData = <<[labels |-> <<weatherHistory[2].timeLabel>>, data |-> <<<<Num(20)>>>>]>>

IsPrefix(s, t) == Len(s) <= Len(t) /\ SubSeq(t, 1, Len(s)) = s

\* C12: in every step (a submission, a response that succeeds or fails or
\* comes late, a mode switch, a chat step, the panel opening or closing) each
\* session history after the step begins with the history before it, so no
\* point is removed, reordered, merged or modified; and a 2xx reading adds
\* one point even when the store already holds a point of that entity.
C12_HistoryAppendOnly ==
    [][/\ IsPrefix(weatherHistory, weatherHistory')
       /\ IsPrefix(cryptoHistory, cryptoHistory')
       /\ \A i \in 1..Len(fetchCalls) :
             FetchSettles(i, ReadingSample(fetchCalls[i]), "09:00")
               => Len(weatherHistory') + Len(cryptoHistory')
                     = Len(weatherHistory) + Len(cryptoHistory) + 1]_vars

\* two readings of the same city are both in the store, after a mode switch,
\* a failed crypto lookup, a chat answer and a visit to the panel
C12_Witness ==
    /\ Len(weatherHistory) = 2
    /\ weatherHistory[1] = weatherHistory[2]
    /\ mode = "crypto"
    /\ error = MsgNetwork
    /\ chatAnswer # <<>>
    /\ historyItems # <<>>
    /\ ~phase3Open

\* C13: while a lookup is pending the Ask Agent button still starts a chat
\* request, and while a chat request is pending the Get Info button still
\* starts a lookup; and when a lookup and a chat request are both in
\* flight, their two responses lead to the same state in either order: the
\* chat slots end as the chat response alone leaves them and the lookup
\* slots as the lookup response alone leaves them.
C13_LookupAndChatIndependent ==
    /\ [](loading /\ ~chatLoading /\ Trim(chatMessage) # <<>> /\ InFlight < MaxInFlight
            => ENABLED (ClickAskAgent /\ Len(chatCalls') = Len(chatCalls) + 1))
    /\ [](chatLoading /\ ~loading /\ Trim(inputValue) # <<>> /\ InFlight < MaxInFlight
            => ENABLED (ClickGetInfo /\ Len(fetchCalls') = Len(fetchCalls) + 1))
    /\ [][\A i \in 1..Len(fetchCalls) : \A j \in 1..Len(chatCalls) :
            \A r \in LookupSample(fetchCalls[i]) : \A c \in ChatSample :
              \* the chat response came first: had the lookup response come
              \* first, the chat response after it would end in these chat slots
              /\ (ChatSettles(j, c) /\ ENABLED FetchSettles(i, r, "09:00"))
                    => \E after \in {chatVars'} :
                          ENABLED (/\ FetchSettles(i, r, "09:00")
                                   /\ chatVars' = chatVars
                                   /\ feedVars' = feedVars
                                   /\ (ENABLED (/\ ChatSettles(j, c)
                                                /\ chatVars' = after
                                                /\ lookupVars' = lookupVars
                                                /\ feedVars' = feedVars))')
              \* the lookup response came first: had the chat response come
              \* first, the lookup response after it would end in these
              \* lookup slots
              /\ FetchSettles(i, r, "09:00")
                    => \E after \in {lookupVars'} :
                          ENABLED (/\ ChatSettles(j, c)
                                   /\ lookupVars' = lookupVars
                                   /\ feedVars' = feedVars
                                   /\ (ENABLED (/\ FetchSettles(i, r, "09:00")
                                                /\ lookupVars' = after
                                                /\ chatVars' = chatVars
                                                /\ feedVars' = feedVars))')]_vars

\* a lookup and a chat request are in flight together
C13_Witness ==
    /\ loading
    /\ chatLoading
    /\ Len(fetchCalls) = 1
    /\ Len(chatCalls) = 1

\* C14: a 2xx answer to a history load makes the feed exactly the returned
\* sequence, whatever the feed held before, so a load that returns what the
\* feed already holds leaves the feed as it is; and no step of the loader
\* (its start when the panel opens, its end on any answer) changes a lookup
\* or chat slot.
C14_LoadHistoryReplaces ==
    [][/\ \A i \in 1..Len(historyCalls) : \A d \in Feeds :
             HistorySettles(i, JsonObject(TRUE, d))
               => /\ historyItems' = d
                  /\ (historyItems = d => historyItems' = historyItems)
                  /\ ~historyLoading'
       /\ (\E i \in 1..Len(historyCalls) : \E resp \in FeedResponses :
              HistorySettles(i, resp))
            => UNCHANGED <<lookupVars, chatVars, phase3Open>>
       /\ togglePhase3 => UNCHANGED <<lookupVars, chatVars, historyItems>>]_vars

\* a feed of two items has been loaded next to a chat answer
C14_Witness ==
    /\ historyItems = <<FeedItem(2), FeedItem(1)>>
    /\ historyError = <<>>
    /\ ~historyLoading
    /\ historyCalls = <<>>
    /\ phase3Open
    /\ chatAnswer # <<>>

\* the values of the points of both session histories
RecordedValues ==
    {weatherHistory[k].temperature : k \in 1..Len(weatherHistory)}
        \cup {cryptoHistory[k].price : k \in 1..Len(cryptoHistory)}

\* the values of the series the chart projection returns
ChartedValues ==
    IF buildChartData = <<>> THEN {}
    ELSE {buildChartData[1].data[k] : k \in 1..Len(buildChartData[1].data)}

\* C15: a 2xx reading whose temperature_c / price_usd is missing or is not a
\* number is never appended to a session history nor charted: every
\* recorded value and every charted value is present and is a number.
C15_OnlyNumbersRecorded ==
    \A v \in RecordedValues \cup ChartedValues : v # <<>> /\ IsNumber(v[1])

\* the requests in flight, of every handler
Outstanding == fetchCalls \o chatCalls \o historyCalls

\* how many of the requests in `calls` went to the endpoint ep
CountOf(calls, ep) == Cardinality({k \in 1..Len(calls) : calls[k].endpoint = ep})

\* C16: every transition of the panel from closed to open issues one
\* history-feed request (GET /history) and one schedule-list request
\* (GET /schedules).
C16_OpenLoadsFeedAndSchedules ==
    [][(~phase3Open /\ phase3Open')
        => /\ CountOf(Outstanding', "/history") = CountOf(Outstanding, "/history") + 1
           /\ CountOf(Outstanding', "/schedules") = CountOf(Outstanding, "/schedules") + 1]_vars

\* C19: a submission of the input ' B ' issues one request: in Weather mode
\* GET /weather with city 'B', the trimmed input in its own letter case; in
\* Crypto mode GET /crypto with coin 'b', the trimmed input lower-cased.
\* The request belongs to the mode that is active at the submission: a
\* later click on a mode button leaves the requests in flight as they are.
C19_RequestFollowsModeAndInput ==
    [][/\ (Submits /\ inputValue = <<" ", "B", " ">>)
            => /\ Len(fetchCalls') = Len(fetchCalls) + 1
               /\ SubSeq(fetchCalls', 1, Len(fetchCalls)) = fetchCalls
               /\ LET request == fetchCalls'[Len(fetchCalls')] IN
                  IF mode = "weather"
                  THEN request.endpoint = "/weather" /\ request.param = <<"B">>
                  ELSE request.endpoint = "/crypto" /\ request.param = <<"b">>
       /\ (\E m \in Modes : setModeClick(m)) => fetchCalls' = fetchCalls]_vars

\* ' B ' was submitted in Crypto mode and the mode is Weather by now: the
\* request in flight is the crypto one, for 'b'
C19_Witness ==
    /\ mode = "weather"
    /\ inputValue = <<" ", "B", " ">>
    /\ Len(fetchCalls) = 1
    /\ fetchCalls[1].endpoint = "/crypto"
    /\ fetchCalls[1].param = <<"b">>

\* C20: the number of lookup requests grows only in a step of a submission
\* whose trimmed input is not empty, and then by one; the step that ends a
\* lookup, whatever the answer (no response, unparsable body, server error,
\* rate limit, reading), takes its request out of flight and issues none.
C20_NoAutomaticRetry ==
    [][/\ \/ Len(fetchCalls') <= Len(fetchCalls)
          \/ /\ Submits
             /\ Trim(inputValue) # <<>>
             /\ Len(fetchCalls') = Len(fetchCalls) + 1
       /\ \A i \in 1..Len(fetchCalls) :
             \A resp \in ErrorResponses \cup {ReadingSample(fetchCalls[i])} :
                \/ Len(fetchCalls') = Len(fetchCalls) - 1
                \/ ~FetchSettles(i, resp, "09:00")]_vars

\* a crypto lookup has failed on the network and nothing is in flight
C20_Witness ==
    /\ mode = "crypto"
    /\ error = MsgNetwork
    /\ fetchCalls = <<>>
    /\ ~loading
    /\ result = <<>>

\* C21: when no call stays unanswered for ever, a pending flag that is true
\* (loading, chatLoading, historyLoading) is eventually false again; and the
\* step that ends a call sets the flag of its surface to false whatever the
\* answer is and whatever the mode or the panel is by then.
C21_PendingFlagsFall ==
    /\ loading ~> ~loading
    /\ chatLoading ~> ~chatLoading
    /\ historyLoading ~> ~historyLoading
    /\ [][/\ LookupResponds => ~loading'
          /\ ChatResponds => ~chatLoading'
          /\ FeedResponds => ~historyLoading']_vars

\* a lookup submitted in Weather mode failed after the switch to Crypto, a
\* feed load failed after the panel was closed, and a chat request failed
C21_Witness ==
    /\ mode = "crypto"
    /\ error = MsgNetwork
    /\ ~loading
    /\ ~phase3Open
    /\ historyError = MsgHistoryNetwork
    /\ ~historyLoading
    /\ chatError = MsgAgentNetwork
    /\ chatAnswer = <<>>
    /\ ~chatLoading
    /\ InFlight = 0

\* the answers that make an attempt fail: no response, an unparsable body,
\* a server error
Failed == Broken \cup {JsonObject(FALSE, [status |-> "error"])}

\* C22: the step in which an attempt fails while no other request of its
\* surface is in flight (a rejected submission, a server error, a network
\* failure) leaves the error slot of the surface non-empty and its result
\* slot (result and rawJson, chatAnswer, historyItems) empty.
C22_FailureClearsResult ==
    [][/\ \A resp \in Failed :
             /\ (Len(fetchCalls) = 1 /\ FetchSettles(1, resp, "09:00"))
                   => error' # <<>> /\ result' = <<>> /\ rawJson' = <<>>
             /\ (Len(chatCalls) = 1 /\ ChatSettles(1, resp))
                   => chatError' # <<>> /\ chatAnswer' = <<>>
             /\ (Len(historyCalls) = 1 /\ HistorySettles(1, resp))
                   => historyError' # <<>> /\ historyItems' = <<>>
       /\ (fetchCalls = <<>> /\ Submits /\ Trim(inputValue) = <<>>)
             => error' # <<>> /\ result' = <<>> /\ rawJson' = <<>>
       /\ (chatCalls = <<>> /\ (ClickAskAgent \/ PressEnterChat) /\ Trim(chatMessage) = <<>>)
             => chatError' # <<>> /\ chatAnswer' = <<>>]_vars

ChatSubmits == ClickAskAgent \/ PressEnterChat

\* C23: a chat submission whose message is empty or only whitespace puts
\* 'Please enter a question for the agent.' in the chat error slot, empties
\* the answer, issues no request and leaves chatLoading as it is; a
\* submission of ' q ' posts exactly 'q' to /agent/chat; and a 2xx answer
\* makes the returned answer the current one, in place of any earlier one.
C23_ChatValidatesAndSendsTrimmed ==
    [][/\ (ChatSubmits /\ chatMessage \in {<<>>, <<" ">>})
            => /\ chatError' = <<"Please enter a question for the agent.">>
               /\ chatAnswer' = <<>>
               /\ chatCalls' = chatCalls
               /\ chatLoading' = chatLoading
       /\ (ChatSubmits /\ chatMessage = <<" ", "q", " ">>)
            => /\ Len(chatCalls') = Len(chatCalls) + 1
               /\ chatCalls'[Len(chatCalls')].endpoint = "/agent/chat"
               /\ chatCalls'[Len(chatCalls')].body = [message |-> <<"q">>]
               /\ chatLoading'
       /\ \A i \in 1..Len(chatCalls) : \A a \in Answers :
             ChatSettles(i, JsonObject(TRUE, [answer |-> a])) => chatAnswer' = a]_vars

\* the agent has answered the question 'q'
C23_Witness ==
    /\ chatMessage = <<" ", "q", " ">>
    /\ chatAnswer = <<"It is sunny.">>
    /\ chatError = <<>>
    /\ ~chatLoading
    /\ chatCalls = <<>>

\* C24: every transition of the panel from closed to open issues exactly
\* one request, GET /history with limit 20, also when a feed is already
\* loaded; closing the panel issues no request and leaves the feed, its
\* error and its loading flag as they are.
C24_FeedRefetchedOnOpen ==
    [][/\ (~phase3Open /\ phase3Open')
            => /\ historyCalls' = Append(historyCalls, [endpoint |-> "/history", limit |-> 20])
               /\ UNCHANGED <<fetchCalls, chatCalls>>
       /\ (phase3Open /\ ~phase3Open')
            => UNCHANGED <<fetchCalls, chatCalls, historyCalls,
                           historyItems, historyError, historyLoading>>]_vars

\* the panel was opened again over a loaded feed: a new load is in flight
C24_Witness ==
    /\ phase3Open
    /\ historyItems # <<>>
    /\ historyLoading
    /\ Len(historyCalls) = 1

\* C25: a result in the result slot is a reading of the active mode: a
\* weather reading (it has a city) in Weather mode, a crypto reading (it has
\* a coin_id) in Crypto mode.
C25_ResultOfActiveMode ==
    result # <<>> =>
        IF mode = "weather"
        THEN "city" \in DOMAIN result[1]
        ELSE "coin_id" \in DOMAIN result[1]

\* C26: on the lookup surface the error slot and the result slot are never
\* both non-empty, and the raw payload slot is non-empty exactly when the
\* result slot is.
C26_ErrorExcludesResult ==
    /\ ~(error # <<>> /\ result # <<>>)
    /\ (rawJson # <<>>) <=> (result # <<>>)

\* C27: loading is true exactly when a lookup request is in flight, and
\* chatLoading exactly when a chat request is in flight.
C27_FlagTracksRequest ==
    /\ loading <=> Len(fetchCalls) >= 1
    /\ chatLoading <=> Len(chatCalls) >= 1

\* C28: when loads of the history feed overlap, historyLoading stays true
\* while a load is outstanding, and once the most recently issued load has
\* been answered no answer to an earlier load changes the feed or its error.
OlderAnswerChanges(shown) ==
    \E resp \in FeedResponses :
        /\ HistorySettles(1, resp)
        /\ <<historyItems', historyError'>> # shown

C28_NewestLoadWins ==
    /\ [](Len(historyCalls) >= 1 => historyLoading)
    /\ [][\A resp \in FeedResponses :
            \/ Len(historyCalls) < 2
            \/ ~HistorySettles(Len(historyCalls), resp)
            \/ \E shown \in {<<historyItems', historyError'>>} :
                   ~(ENABLED OlderAnswerChanges(shown))']_vars

====
